---- MODULE Spec2Model ----
(***************************************************************************)
(* Accidents map: the update_map callback of src/app.py, the colour       *)
(* registry built at module load, and the percentage aggregation.         *)
(*                                                                         *)
(* Coordinates are integers in units of 1000/111320 degree, so that a     *)
(* slider radius of k*1000 metres is a buffer of exactly k units          *)
(* (radius / 111320 degrees).  A python None is the empty sequence <<>>   *)
(* and a present value x is <<x>>.                                         *)
(***************************************************************************)
EXTENDS Integers, Sequences, FiniteSets, TLC

VARIABLES
    gdf,               \* the loaded dataset (rows in file order)
    points,            \* coordinate array the k-d tree is built over
    col_values_color,  \* colour registry: column -> (str(value) -> colour)
    selected_column,   \* column-selector.value
    clickdate,         \* accidents-map-object.clickData
    radius,            \* radius-slider.value (metres)
    edit_geojson,      \* edit_control.geojson
    selection_mode,    \* selection-mode.value
    polygon_positions, \* costum_polygon.positions (input and output)
    arg_positions,     \* polygon_positions as received by the last call
    out_data,          \* accidents-geojson.data: positions of the rows kept
    out_configs,       \* poitns_configurations handed to the grid chart
    out_grid,          \* grid-scatterplot.figure: the cells of the grid chart
    out_center,        \* circle_polygon.center
    out_radius,        \* circle_polygon.radius
    out_disabled,      \* radius-slider.disabled
    err,               \* exception raised by the last call, or "none"
    reg_values,        \* registry loop: df[col].unique()
    reg_i,             \* registry loop: enumerate index reached
    reg_items,         \* registry loop: items dict built so far
    reg_err,           \* registry loop: exception raised, or "none"
    agg_counts,        \* aggregation: the count_ column of the group table
    agg_normalized,    \* aggregation: the count_normalized column
    agg_grid,          \* aggregation: the cells of the grid chart built from it
    call_pc,           \* overlapping calls: position of each invocation
    call_frame         \* overlapping calls: locals of each invocation

vars == <<gdf, points, col_values_color, selected_column, clickdate, radius,
          edit_geojson, selection_mode, polygon_positions, arg_positions,
          out_data, out_configs, out_grid, out_center, out_radius, out_disabled,
          err, reg_values, reg_i, reg_items, reg_err, agg_counts, agg_normalized,
          agg_grid, call_pc, call_frame>>

appVars == <<gdf, points, col_values_color, selected_column, clickdate, radius,
             edit_geojson, selection_mode, polygon_positions, arg_positions,
             out_data, out_configs, out_grid, out_center, out_radius,
             out_disabled, err>>

regVars == <<reg_values, reg_i, reg_items, reg_err>>

aggVars == <<agg_counts, agg_normalized, agg_grid>>

callVars == <<call_pc, call_frame>>

(* What the page holds: the callback's inputs and outputs. *)
pageVars == <<selected_column, clickdate, radius, edit_geojson, selection_mode,
              polygon_positions, arg_positions, out_data, out_configs, out_grid,
              out_center, out_radius, out_disabled, err>>

-----------------------------------------------------------------------------
(* Bounds of the model *)

MaxRadiusSteps == 1   \* slider positions 1000 .. MaxRadiusSteps*1000 are tried
MaxFeatures == 2      \* features the edit control holds at once
MaxDistinct == 26     \* distinct values of a column in the registry loop
MaxCats == 3          \* groups in the aggregation table
MaxCalls == 2          \* invocations of update_map that may be in flight at once
MaxCount == 8         \* rows per group in the aggregation table

-----------------------------------------------------------------------------
(* Python values *)

None == <<>>

Some(x) == <<x>>

Truthy(v) == Len(v) > 0

Str(v) == ToString(v)

SeqToSet(s) == {s[k] : k \in 1..Len(s)}

-----------------------------------------------------------------------------
(* Layout constants *)

center == <<12, 14>>      \* (lat, lon) of the default map centre

columns_list == <<"HUMRAT_TEUNA", "SUG_DEREH">>

default_column == "HUMRAT_TEUNA"

(* A value of the column selector that names no column of the dataset (the *)
(* dropdown can be cleared).                                               *)
absent_column == "None"

ColumnChoices == SeqToSet(columns_list) \cup {absent_column}

slider_step == 1000

slider_value == 10000

initial_positions == <<center, center, center, center>>

Radii == {k * slider_step : k \in 1..MaxRadiusSteps} \cup {slider_value}

Modes == {"radius", "polygon"}

-----------------------------------------------------------------------------
(* Datasets: rows of accidents_2023_processed.csv, abstracted *)

Row(lon, lat, ht, sd) ==
    [lon |-> lon, lat |-> lat, HUMRAT_TEUNA |-> ht, SUG_DEREH |-> sd]

Dataset1 ==
    << Row(3, 2, 3, 1),    Row(4, 2, 1, 1),    Row(4, 3, 3, 2),
       Row(5, 2, 2, 4),    Row(5, 4, 1, 3),    Row(6, 3, 3, 1),
       Row(14, 12, 2, 2),  Row(20, 20, 3, 4),  Row(25, 25, 1, 1) >>

Dataset2 ==
    << Row(3, 2, 2, 5),    Row(3, 2, 2, 5),    Row(14, 12, 1, 5),
       Row(4, 3, 2, 6) >>

Datasets == {Dataset1, Dataset2}

ClickPoints == { [lat |-> 2, lng |-> 3], [lat |-> 20, lng |-> 20] }

(* Rings the drawing control can deliver: closed, (lon, lat) order. *)
RingA == << <<2, 1>>, <<6, 1>>, <<6, 3>>, <<2, 3>>, <<2, 1>> >>

RingB == << <<18, 18>>, <<24, 18>>, <<18, 24>>, <<18, 18>> >>

DrawableRings == {RingA, RingB}

-----------------------------------------------------------------------------
(* Geometry.  A point is <<x, y>> = <<lon, lat>>. *)

Sq(a) == a * a

Dist2(p, q) == Sq(p[1] - q[1]) + Sq(p[2] - q[2])

(* Point(center[1], center[0]): a (lat, lng) pair as an (x, y) point. *)
LatLngToPoint(c) == <<c[2], c[1]>>

(* radius / 111320 degrees, in grid units (the slider moves in steps of 1000). *)
BufferRadius(r) == r \div slider_step

(* center_point.buffer(d): the disk of radius d around the point. *)
Buffer(c, d) == [c |-> c, d |-> d]

(* buffer.bounds *)
Bounds(buffer) ==
    [minx |-> buffer.c[1] - buffer.d, miny |-> buffer.c[2] - buffer.d,
     maxx |-> buffer.c[1] + buffer.d, maxy |-> buffer.c[2] + buffer.d]

(* buffer.contains(Point(p)): p in the interior of the disk. *)
BufferContains(buffer, p) == Dist2(buffer.c, p) < Sq(buffer.d)

(* tree.query_ball_point([(minx+maxx)/2, (miny+maxy)/2],                  *)
(*                       r = sqrt((maxx-minx)^2 + (maxy-miny)^2) / 2):    *)
(* rows at distance <= r of the query point, compared here with every     *)
(* length doubled and squared so that the arithmetic stays in integers.   *)
QueryBallHalfWidth(pts, b) ==
    {i \in 1..Len(pts) :
        Sq(2 * pts[i][1] - (b.minx + b.maxx)) + Sq(2 * pts[i][2] - (b.miny + b.maxy))
            <= Sq((b.maxx - b.minx) \div 2)}

query_ball_point(pts, b) ==
    {i \in 1..Len(pts) :
        Sq(2 * pts[i][1] - (b.minx + b.maxx)) + Sq(2 * pts[i][2] - (b.miny + b.maxy))
            <= Sq(b.maxx - b.minx) + Sq(b.maxy - b.miny)}

(* filtered_indices: the candidates the buffer contains. *)
filtered_indices(pts, c, r) ==
    LET buffer == Buffer(LatLngToPoint(c), BufferRadius(r))
        candidates == query_ball_point(pts, Bounds(buffer))
    IN  {i \in candidates : BufferContains(buffer, pts[i])}

(* Polygon rings.  ring[k] -> ring[k+1], closed from the last vertex to the first. *)
NextIdx(ring, k) == (k % Len(ring)) + 1

Between(a, b, v) == (a <= v /\ v <= b) \/ (b <= v /\ v <= a)

OnSegment(p, a, b) ==
    /\ (b[1] - a[1]) * (p[2] - a[2]) = (b[2] - a[2]) * (p[1] - a[1])
    /\ Between(a[1], b[1], p[1])
    /\ Between(a[2], b[2], p[2])

OnBoundary(p, ring) ==
    \E k \in 1..Len(ring) : OnSegment(p, ring[k], ring[NextIdx(ring, k)])

(* The horizontal ray from p towards +x crosses the edge a -> b. *)
RayCrosses(p, a, b) ==
    /\ (a[2] > p[2]) # (b[2] > p[2])
    /\ IF b[2] > a[2]
       THEN (p[1] - a[1]) * (b[2] - a[2]) < (p[2] - a[2]) * (b[1] - a[1])
       ELSE (p[1] - a[1]) * (b[2] - a[2]) > (p[2] - a[2]) * (b[1] - a[1])

Crossings(p, ring) ==
    Cardinality({k \in 1..Len(ring) : RayCrosses(p, ring[k], ring[NextIdx(ring, k)])})

(* Point.within(Polygon(ring)): the point lies in the interior of the polygon; *)
(* a point of the boundary is not within.                                      *)
WithinClosed(p, ring) == OnBoundary(p, ring) \/ Crossings(p, ring) % 2 = 1

Within(p, ring) == ~OnBoundary(p, ring) /\ Crossings(p, ring) % 2 = 1

(* geometry.within(unary_union of the features); the drawable rings are    *)
(* pairwise disjoint, so the interior of the union is the union of the     *)
(* interiors.                                                              *)
WithinUnion(p, features) == \E k \in 1..Len(features) : Within(p, features[k])

(* [[item[1], item[0]] for item in coords]: swaps (lon, lat) and (lat, lon). *)
SwapPair(pos) == <<pos[2], pos[1]>>

SwapAll(coords) == [k \in 1..Len(coords) |-> SwapPair(coords[k])]

DistinctVertices(positions) == Cardinality(SeqToSet(positions))

-----------------------------------------------------------------------------
(* Colour registry (module load) *)

(* px.colors.qualitative.Dark24 *)
Dark24 ==
    << "#2E91E5", "#E15F99", "#1CA71C", "#FB0D0D", "#DA16FF", "#222A2A",
       "#B68100", "#750D86", "#EB663B", "#511CFB", "#00A08B", "#FB00D1",
       "#FC0080", "#B2828D", "#6C7C32", "#778AAE", "#862A16", "#A777F1",
       "#620042", "#1616A7", "#DA60CA", "#6C4516", "#0D2A63", "#AF0038" >>

(* Dark24[i] with i counted from 0: defined for i < len(Dark24) only. *)
InPalette(i) == i < Len(Dark24)

PaletteAt(i) == Dark24[i + 1]

EmptyDict == <<>>

(* d[key] = value *)
DictSet(d, key, value) ==
    [s \in (DOMAIN d) \cup {key} |-> IF s = key THEN value ELSE d[s]]

RECURSIVE UniqueFrom(_, _)
UniqueFrom(vals, seen) ==
    IF vals = <<>> THEN <<>>
    ELSE IF Head(vals) \in seen THEN UniqueFrom(Tail(vals), seen)
         ELSE <<Head(vals)>> \o UniqueFrom(Tail(vals), seen \cup {Head(vals)})

(* df[col].unique(): the distinct values in order of first appearance. *)
unique(data, col) == UniqueFrom([k \in 1..Len(data) |-> data[k][col]], {})

(* items after the first n turns of the enumerate loop. *)
RECURSIVE ItemsAfter(_, _)
ItemsAfter(values, n) ==
    IF n = 0 THEN EmptyDict
    ELSE DictSet(ItemsAfter(values, n - 1), Str(values[n]), PaletteAt(n - 1))

BuildRegistry(data) ==
    [col \in SeqToSet(columns_list) |->
        ItemsAfter(unique(data, col), Len(unique(data, col)))]

-----------------------------------------------------------------------------
(* Aggregation *)

RECURSIVE Sum(_)
Sum(s) == IF s = <<>> THEN 0 ELSE Head(s) + Sum(Tail(s))

(* round(p * 100) for p = c / n: python's round, which sends a tie to the *)
(* even neighbour.                                                        *)
RoundHalfUp(c, n) == (200 * c + n) \div (2 * n)

RoundPct(c, n) ==
    LET q == (100 * c) \div n
        rem == (100 * c) % n
    IN  IF 2 * rem < n THEN q
        ELSE IF 2 * rem > n THEN q + 1
        ELSE IF q % 2 = 0 THEN q ELSE q + 1

SeqMax(s) == CHOOSE m \in SeqToSet(s) : \A x \in SeqToSet(s) : x <= m

(* (count_ / count_.sum()).apply(lambda p: round(p * 100)) *)
CountOverMax(counts) ==
    [k \in 1..Len(counts) |-> RoundPct(counts[k], SeqMax(counts))]

count_normalized(counts) ==
    [k \in 1..Len(counts) |-> RoundPct(counts[k], Sum(counts))]

SetMin(S) == CHOOSE m \in S : \A x \in S : m <= x

SetMax(S) == CHOOSE m \in S : \A x \in S : x <= m

RECURSIVE DescendingSeq(_)
DescendingSeq(S) ==
    IF S = {} THEN <<>> ELSE <<SetMax(S)>> \o DescendingSeq(S \ {SetMax(S)})

RECURSIVE SortedSeq(_)
SortedSeq(S) ==
    IF S = {} THEN <<>> ELSE <<SetMin(S)>> \o SortedSeq(S \ {SetMin(S)})

(* gdf_copy['color']: the registry colour of str(value), per row. *)
StaleColorColumn(data, registry, col, i) ==
    registry[default_column][Str(data[i][default_column])]

ColorColumn(data, registry, col, i) == registry[col][Str(data[i][col])]

(* groupby(col).agg(color=first, count_=count).reset_index(): one line per *)
(* value present in the rows, sorted by value.                             *)
GroupTable(data, registry, col, rows) ==
    LET keys == SortedSeq({data[i][col] : i \in rows})
        group(v) == {i \in rows : data[i][col] = v}
    IN  [k \in 1..Len(keys) |->
            [topic  |-> keys[k],
             color  |-> ColorColumn(data, registry, col, SetMin(group(keys[k]))),
             count_ |-> Cardinality(group(keys[k]))]]

poitns_configurations(data, registry, col, rows) ==
    LET table == GroupTable(data, registry, col, rows)
        norm == count_normalized([k \in 1..Len(table) |-> table[k].count_])
    IN  [k \in 1..Len(table) |->
            [num_points |-> norm[k],
             color      |-> table[k].color,
             topic      |-> table[k].topic]]

-----------------------------------------------------------------------------
(* create_grid_scatterplot: the cells placed, in order; a cell is its      *)
(* column x, its row y and the topic that colours it.                      *)

points_per_row == 10

grid_limit == 100

GridFullOffByOne(total_points) == total_points > grid_limit

(* if total_points >= 100: break *)
GridFull(total_points) == total_points >= grid_limit

(* for i in range(num_points): one cell per turn until the grid is full. *)
RECURSIVE AddPoints(_, _, _)
AddPoints(cells, num_points, topic) ==
    IF num_points <= 0 \/ GridFull(Len(cells)) THEN cells
    ELSE AddPoints(Append(cells, [x      |-> Len(cells) % points_per_row,
                                  y      |-> Len(cells) \div points_per_row,
                                  colors |-> Str(topic)]),
                   num_points - 1, topic)

(* for config in point_configs *)
RECURSIVE PlaceConfigs(_, _)
PlaceConfigs(point_configs, n) ==
    IF n = 0 THEN <<>>
    ELSE AddPoints(PlaceConfigs(point_configs, n - 1),
                   point_configs[n].num_points, point_configs[n].topic)

(* The figure the layout shows before the first call. *)
layout_point_configs ==
    << [num_points |-> 13, color |-> "blue", topic |-> "Points"],
       [num_points |-> 12, color |-> "green", topic |-> "DontKnow"] >>

GridDemoWhenEmpty(point_configs) ==
    IF point_configs = <<>>
    THEN PlaceConfigs(layout_point_configs, Len(layout_point_configs))
    ELSE PlaceConfigs(point_configs, Len(point_configs))

create_grid_scatterplot(point_configs) ==
    PlaceConfigs(point_configs, Len(point_configs))

-----------------------------------------------------------------------------
(* update_map *)

Geometry(data, i) == <<data[i].lon, data[i].lat>>

AllRows(data) == 1..Len(data)

(* radius after lines 293-315: a click outside radius mode zeroes it. *)
RadiusZeroedWithoutClick(hasClick, mode, rad) ==
    IF mode = "radius" /\ hasClick THEN rad ELSE 0

RadiusAfterClick(hasClick, mode, rad) ==
    IF hasClick /\ mode # "radius" THEN 0 ELSE rad

(* fallback after lines 316-330: polygon mode, a drawing input that is set *)
(* and holds no feature.                                                  *)
FallbackOnlyWithoutInput(mode, geojson) ==
    mode = "polygon" /\ ~Truthy(geojson)

Fallback(mode, geojson) ==
    mode = "polygon" /\ Truthy(geojson) /\ Len(geojson[1]) = 0

(* The values update_map returns (or the exception it raises) for its      *)
(* arguments; `data`, `pts` and `registry` are the module globals gdf,     *)
(* points and col_values_color.                                            *)
update_map(data, pts, registry, column, click, rad, geojson, mode, positions) ==
    LET hasClick == Truthy(click)
        c == IF hasClick THEN <<click[1].lat, click[1].lng>> ELSE center
        inRadius == hasClick /\ mode = "radius"
        (* lines 293-315 *)
        positions1 == IF inRadius THEN <<c, c, c>> ELSE positions
        rows1 == IF inRadius THEN filtered_indices(pts, c, rad) ELSE AllRows(data)
        radius1 == RadiusAfterClick(hasClick, mode, rad)
        (* lines 316-330 *)
        useDrawing == mode = "polygon" /\ Truthy(geojson)
        features == IF Truthy(geojson) THEN geojson[1] ELSE <<>>
        drawn == useDrawing /\ Len(features) > 0
        fallback == Fallback(mode, geojson)
        (* lines 332-340 *)
        useStored == mode = "polygon" /\ fallback /\ Truthy(positions1)
        coords == SwapAll(positions1)
        (* line 290: gdf_copy[selected_column], col_values_color[selected_column] *)
        knownColumn == column \in DOMAIN data[1] /\ column \in DOMAIN registry
        raised == IF ~knownColumn THEN "KeyError"
                  ELSE IF useStored /\ Len(coords) < 3 THEN "ValueError"
                  ELSE "none"
        rows == IF drawn
                THEN {i \in rows1 : WithinUnion(Geometry(data, i), features)}
                ELSE IF useStored
                     THEN {i \in rows1 : Within(Geometry(data, i), coords)}
                     ELSE rows1
        radiusOut == IF drawn \/ useStored THEN 0 ELSE radius1
        positionsOut == IF drawn THEN SwapAll(features[1]) ELSE positions1
    IN  [err       |-> raised,
         data      |-> rows,
         configs   |-> IF raised = "none"
                       THEN poitns_configurations(data, registry, column, rows)
                       ELSE <<>>,
         grid      |-> IF raised = "none"
                       THEN create_grid_scatterplot(
                                poitns_configurations(data, registry, column, rows))
                       ELSE <<>>,
         center    |-> c,
         radius    |-> radiusOut,
         positions |-> positionsOut,
         disabled  |-> (mode = "polygon")]

(* One callback round: the inputs as they are after the event, the outputs *)
(* written back to the page.  An exception leaves the page as it was.      *)
Fire(column, click, rad, geojson, mode) ==
    \E r \in {update_map(gdf, points, col_values_color, column, click, rad,
                         geojson, mode, polygon_positions)} :
        /\ selected_column' = column
        /\ clickdate' = click
        /\ radius' = rad
        /\ edit_geojson' = geojson
        /\ selection_mode' = mode
        /\ arg_positions' = polygon_positions
        /\ err' = r.err
        /\ IF r.err = "none"
           THEN /\ out_data' = r.data
                /\ out_configs' = r.configs
                /\ out_grid' = r.grid
                /\ out_center' = r.center
                /\ out_radius' = r.radius
                /\ out_disabled' = r.disabled
                /\ polygon_positions' = r.positions
           ELSE UNCHANGED <<out_data, out_configs, out_grid, out_center,
                            out_radius, out_disabled, polygon_positions>>
        /\ UNCHANGED <<gdf, points, col_values_color>>
        /\ UNCHANGED regVars
        /\ UNCHANGED aggVars
        /\ UNCHANGED callVars

-----------------------------------------------------------------------------
(* Events *)

ColumnChangedClearsClick(column) ==
    /\ column # selected_column
    /\ Fire(column, None, radius, edit_geojson, selection_mode)

ColumnChanged(column) ==
    /\ column # selected_column
    /\ Fire(column, clickdate, radius, edit_geojson, selection_mode)

MapClicked(latlng) ==
    /\ latlng \in ClickPoints
    /\ Fire(selected_column, Some(latlng), radius, edit_geojson, selection_mode)

RadiusChanged(rad) ==
    /\ ~out_disabled
    /\ rad # radius
    /\ Fire(selected_column, clickdate, rad, edit_geojson, selection_mode)

ModeChanged(mode) ==
    /\ mode # selection_mode
    /\ Fire(selected_column, clickdate, radius, edit_geojson, mode)

(* The drawing control reports one more feature. *)
PolygonDrawn(ring) ==
    LET features == IF Truthy(edit_geojson) THEN edit_geojson[1] ELSE <<>>
    IN  /\ Len(features) < MaxFeatures
        /\ Fire(selected_column, clickdate, radius,
                Some(Append(features, ring)), selection_mode)

(* The drawing control reports an empty feature collection (the toolbar's *)
(* "clear all", which every call returns, took effect).                    *)
DrawingCleared ==
    /\ edit_geojson # Some(<<>>)
    /\ Fire(selected_column, clickdate, radius, Some(<<>>), selection_mode)

-----------------------------------------------------------------------------
(* Specification of the page *)

RegIdle ==
    /\ reg_values = <<>>
    /\ reg_i = 0
    /\ reg_items = EmptyDict
    /\ reg_err = "none"

AggIdle ==
    /\ agg_counts = <<>>
    /\ agg_normalized = None
    /\ agg_grid = None

Calls == 1..MaxCalls

CallIdle ==
    /\ call_pc = [i \in Calls |-> "idle"]
    /\ call_frame = [i \in Calls |-> None]

(* Module load, then the callback's first call with the layout's values. *)
Loaded(data) ==
    LET pts == [i \in 1..Len(data) |-> Geometry(data, i)]
        registry == BuildRegistry(data)
        r == update_map(data, pts, registry, default_column, None, slider_value,
                        None, "radius", initial_positions)
    IN  /\ gdf = data
        /\ points = pts
        /\ col_values_color = registry
        /\ selected_column = default_column
        /\ clickdate = None
        /\ radius = slider_value
        /\ edit_geojson = None
        /\ selection_mode = "radius"
        /\ arg_positions = initial_positions
        /\ polygon_positions = r.positions
        /\ out_data = r.data
        /\ out_configs = r.configs
        /\ out_grid = r.grid
        /\ out_center = r.center
        /\ out_radius = r.radius
        /\ out_disabled = r.disabled
        /\ err = r.err

Init ==
    /\ \E data \in Datasets : Loaded(data)
    /\ RegIdle
    /\ AggIdle
    /\ CallIdle

Next ==
    \/ \E column \in ColumnChoices : ColumnChanged(column)
    \/ \E latlng \in ClickPoints : MapClicked(latlng)
    \/ \E rad \in Radii : RadiusChanged(rad)
    \/ \E mode \in Modes : ModeChanged(mode)
    \/ \E ring \in DrawableRings : PolygonDrawn(ring)
    \/ DrawingCleared

Spec == Init /\ [][Next]_vars

-----------------------------------------------------------------------------
(* Specification of the registry loop (lines 167-173), for one column:    *)
(* the distinct values come from a bounded set, one loop turn per step.   *)

AppIdle == Loaded(Dataset1)

RegistryInit ==
    /\ \E n \in 0..MaxDistinct : reg_values = [k \in 1..n |-> k]
    /\ reg_i = 0
    /\ reg_items = EmptyDict
    /\ reg_err = "none"
    /\ AppIdle
    /\ AggIdle
    /\ CallIdle

(* items[str(item_name)] = Dark24[i] *)
RegistryAssign ==
    /\ reg_err = "none"
    /\ reg_i < Len(reg_values)
    /\ InPalette(reg_i)
    /\ reg_items' = DictSet(reg_items, Str(reg_values[reg_i + 1]), PaletteAt(reg_i))
    /\ reg_i' = reg_i + 1
    /\ UNCHANGED <<reg_values, reg_err>>
    /\ UNCHANGED appVars
    /\ UNCHANGED aggVars
    /\ UNCHANGED callVars

(* Dark24[i] past the end of the list raises. *)
RegistryRaise ==
    /\ reg_err = "none"
    /\ reg_i < Len(reg_values)
    /\ ~InPalette(reg_i)
    /\ reg_err' = "IndexError"
    /\ UNCHANGED <<reg_values, reg_i, reg_items>>
    /\ UNCHANGED appVars
    /\ UNCHANGED aggVars
    /\ UNCHANGED callVars

RegistryNext == RegistryAssign \/ RegistryRaise

SpecRegistry == RegistryInit /\ [][RegistryNext]_vars

-----------------------------------------------------------------------------
(* Specification of the percentage column (line 348): the group counts    *)
(* come from a bounded set, the column is computed in one step.           *)

RECURSIVE SeqsOver(_, _)
SeqsOver(S, n) ==
    IF n = 0 THEN {<<>>}
    ELSE {Append(s, x) : s \in SeqsOver(S, n - 1), x \in S}

AggregateInit ==
    /\ \E k \in 1..MaxCats : agg_counts \in SeqsOver(1..MaxCount, k)
    /\ agg_normalized = None
    /\ agg_grid = None
    /\ AppIdle
    /\ RegIdle
    /\ CallIdle

Normalize ==
    /\ agg_normalized = None
    /\ agg_normalized' = Some(count_normalized(agg_counts))
    /\ UNCHANGED <<agg_counts, agg_grid>>
    /\ UNCHANGED appVars
    /\ UNCHANGED regVars
    /\ UNCHANGED callVars

(* lines 349-351: one configuration per group (group k has topic k and the *)
(* k-th palette colour), handed to create_grid_scatterplot.                *)
AggConfigs ==
    [k \in 1..Len(agg_counts) |->
        [num_points |-> agg_normalized[1][k],
         color      |-> PaletteAt(k - 1),
         topic      |-> k]]

BuildGrid ==
    /\ agg_normalized # None
    /\ agg_grid = None
    /\ agg_grid' = Some(create_grid_scatterplot(AggConfigs))
    /\ UNCHANGED <<agg_counts, agg_normalized>>
    /\ UNCHANGED appVars
    /\ UNCHANGED regVars
    /\ UNCHANGED callVars

AggregateNext == Normalize \/ BuildGrid

SpecAggregate == AggregateInit /\ [][AggregateNext]_vars

-----------------------------------------------------------------------------
(* Specification of overlapping calls: the server may run several         *)
(* invocations of update_map at once; each has its own locals and takes   *)
(* its steps (copy, colour, filter and summarise, return) in any          *)
(* interleaving with the others.                                          *)

(* The click, mode and drawing a call may arrive with. *)
CallSelections ==
    {[click |-> None, mode |-> "radius", geojson |-> None],
     [click |-> None, mode |-> "polygon", geojson |-> Some(<<RingA>>)]}
    \cup {[click |-> Some(p), mode |-> "radius", geojson |-> None] :
              p \in ClickPoints}

OverlapInit ==
    /\ AppIdle
    /\ RegIdle
    /\ AggIdle
    /\ CallIdle

(* line 289: gdf_copy = gdf.copy() *)
CallCopy(i, column, sel) ==
    /\ call_pc[i] = "idle"
    /\ call_pc' = [call_pc EXCEPT ![i] = "copied"]
    /\ call_frame' = [call_frame EXCEPT ![i] =
                         Some([selected_column |-> column,
                               clickdate       |-> sel.click,
                               selection_mode  |-> sel.mode,
                               edit_geojson    |-> sel.geojson,
                               gdf_copy        |-> gdf,
                               result          |-> None])]
    /\ UNCHANGED <<gdf, points, col_values_color>>
    /\ UNCHANGED <<pageVars, regVars, aggVars>>

(* gdf_copy with its 'color' column set for the column asked for. *)
Coloured(frame) ==
    [k \in 1..Len(frame.gdf_copy) |->
        frame.gdf_copy[k] @@
            ("color" :> ColorColumn(frame.gdf_copy, col_values_color,
                                    frame.selected_column, k))]

KnownColumn(frame) ==
    /\ frame.selected_column \in DOMAIN frame.gdf_copy[1]
    /\ frame.selected_column \in DOMAIN col_values_color

(* The colour column written onto the loaded frame too, as when gdf_copy  *)
(* is another name of gdf and not a copy.                                  *)
CallColourInPlace(i) ==
    /\ call_pc[i] = "copied"
    /\ KnownColumn(call_frame[i][1])
    /\ call_pc' = [call_pc EXCEPT ![i] = "coloured"]
    /\ call_frame' = [call_frame EXCEPT ![i] =
                         Some([@[1] EXCEPT !.gdf_copy = Coloured(call_frame[i][1])])]
    /\ gdf' = Coloured(call_frame[i][1])
    /\ UNCHANGED <<points, col_values_color>>
    /\ UNCHANGED <<pageVars, regVars, aggVars>>

(* line 290: gdf_copy['color'] = gdf_copy[selected_column]...map(...) *)
CallColour(i) ==
    /\ call_pc[i] = "copied"
    /\ KnownColumn(call_frame[i][1])
    /\ call_pc' = [call_pc EXCEPT ![i] = "coloured"]
    /\ call_frame' = [call_frame EXCEPT ![i] =
                         Some([@[1] EXCEPT !.gdf_copy = Coloured(call_frame[i][1])])]
    /\ UNCHANGED <<gdf, points, col_values_color>>
    /\ UNCHANGED <<pageVars, regVars, aggVars>>

(* line 290 with a column the frame or the registry does not have. *)
CallRaise(i) ==
    /\ call_pc[i] = "copied"
    /\ ~KnownColumn(call_frame[i][1])
    /\ call_pc' = [call_pc EXCEPT ![i] = "raised"]
    /\ UNCHANGED call_frame
    /\ UNCHANGED <<gdf, points, col_values_color>>
    /\ UNCHANGED <<pageVars, regVars, aggVars>>

(* lines 293-351: the rows are selected out of the copy (through the      *)
(* shared points) and summarised.                                          *)
CallSelect(i) ==
    LET frame == call_frame[i][1]
    IN  /\ call_pc[i] = "coloured"
        /\ call_pc' = [call_pc EXCEPT ![i] = "selected"]
        /\ call_frame' = [call_frame EXCEPT ![i] =
                Some([frame EXCEPT !.result =
                    Some(update_map(frame.gdf_copy, points, col_values_color,
                                    frame.selected_column, frame.clickdate,
                                    slider_value, frame.edit_geojson,
                                    frame.selection_mode, initial_positions))])]
        /\ UNCHANGED <<gdf, points, col_values_color>>
        /\ UNCHANGED <<pageVars, regVars, aggVars>>

(* lines 352-358: the call returns (or its exception has left it) and its *)
(* locals are gone.                                                        *)
CallReturn(i) ==
    /\ call_pc[i] \in {"selected", "raised"}
    /\ call_pc' = [call_pc EXCEPT ![i] = "idle"]
    /\ call_frame' = [call_frame EXCEPT ![i] = None]
    /\ UNCHANGED <<gdf, points, col_values_color>>
    /\ UNCHANGED <<pageVars, regVars, aggVars>>

OverlapNext ==
    \E i \in Calls :
        \/ \E column \in ColumnChoices, sel \in CallSelections :
              CallCopy(i, column, sel)
        \/ CallColour(i)
        \/ CallRaise(i)
        \/ CallSelect(i)
        \/ CallReturn(i)

SpecOverlap == OverlapInit /\ [][OverlapNext]_vars

-----------------------------------------------------------------------------
(* Properties *)

RowPoint(i) == <<gdf[i].lon, gdf[i].lat>>

ClickPoint == <<clickdate[1].lng, clickdate[1].lat>>

RadiusCase == selection_mode = "radius" /\ Truthy(clickdate) /\ err = "none"

(* Rows at less than `radius` metres of the click (one grid unit is 1000 m). *)
RowsInDisk == {i \in 1..Len(gdf) : Sq(1000) * Dist2(RowPoint(i), ClickPoint) < Sq(radius)}

LoadTimeColor(col, v) ==
    LET u == unique(gdf, col)
    IN  Dark24[CHOOSE j \in 1..Len(u) : u[j] = v]

(* C2: every entry of the category summary carries the colour its value was *)
(* given from the full dataset at load time, whatever the filtered subset,  *)
(* and the colour map handed to the grid chart gives the value that colour. *)
C2_ColorStable ==
    err = "none" =>
        \A k \in 1..Len(out_configs) :
            /\ out_configs[k].color
                  = LoadTimeColor(selected_column, out_configs[k].topic)
            /\ col_values_color[selected_column][Str(out_configs[k].topic)]
                  = LoadTimeColor(selected_column, out_configs[k].topic)

(* C2 witness: a proper, non-empty subset under a column other than the      *)
(* default one, in which some value's colour is not the palette entry at its *)
(* place in the summary.                                                     *)
C2_Witness ==
    /\ err = "none"
    /\ selected_column # default_column
    /\ out_data # {} /\ out_data # 1..Len(gdf)
    /\ \E k \in 1..Len(out_configs) : out_configs[k].color # Dark24[k]

(* C3 (as claimed): the i-th distinct value gets palette[i mod K], and the  *)
(* loop never fails, also with more than K distinct values.                 *)
C3_CyclicAssignmentNeverFails ==
    /\ reg_err = "none"
    /\ \A i \in 0..(reg_i - 1) :
          reg_items[Str(reg_values[i + 1])] = Dark24[(i % Len(Dark24)) + 1]

(* A committed polygon: polygon mode, and stored positions that span an area. *)
Committed ==
    /\ selection_mode = "polygon"
    /\ err = "none"
    /\ DistinctVertices(polygon_positions) >= 3

(* C4 (as claimed): from a committed polygon, the call for the switch to    *)
(* radius mode followed by the call for the switch back, with no drawing in *)
(* between, returns the same polygon positions and the same subset.         *)
C4_RoundTripRestores ==
    Committed =>
        LET toRadius == update_map(gdf, points, col_values_color, selected_column,
                                   clickdate, radius, edit_geojson, "radius",
                                   polygon_positions)
            back == update_map(gdf, points, col_values_color, selected_column,
                               clickdate, radius, edit_geojson, "polygon",
                               toRadius.positions)
        IN  /\ back.positions = polygon_positions
            /\ back.data = out_data

ValidColumn == selected_column \in SeqToSet(columns_list)

NoDrawing ==
    \/ edit_geojson = None
    \/ edit_geojson = Some(<<>>)

(* C5 (as claimed): in polygon mode, an effective polygon with fewer than 3 *)
(* distinct vertices is no region: full dataset, no error.                  *)
C5_DegenerateIsNoRegion ==
    (selection_mode = "polygon" /\ NoDrawing /\ DistinctVertices(arg_positions) < 3
        /\ ValidColumn)
        => (err = "none" /\ out_data = 1..Len(gdf))

(* The stored polygon of the last call as a ring of (lon, lat) points. *)
StoredRing == [k \in 1..Len(arg_positions) |-> <<arg_positions[k][2], arg_positions[k][1]>>]

StoredCase ==
    /\ selection_mode = "polygon"
    /\ err = "none"
    /\ edit_geojson = Some(<<>>)
    /\ DistinctVertices(arg_positions) >= 3

DrawnCase ==
    /\ selection_mode = "polygon"
    /\ err = "none"
    /\ Truthy(edit_geojson)
    /\ Len(edit_geojson[1]) > 0

OnRing(i, ring) ==
    \E k \in 1..Len(ring) :
        LET a == ring[k]
            b == ring[(k % Len(ring)) + 1]
            p == RowPoint(i)
        IN  /\ (b[1] - a[1]) * (p[2] - a[2]) = (b[2] - a[2]) * (p[1] - a[1])
            /\ (a[1] - p[1]) * (b[1] - p[1]) <= 0
            /\ (a[2] - p[2]) * (b[2] - p[2]) <= 0

(* C6 (as claimed): a row on the boundary of the selection polygon is in the *)
(* emitted subset, for a drawn polygon and for the stored one.               *)
C6_BoundaryIncluded ==
    /\ DrawnCase =>
          \A i \in 1..Len(gdf) : OnRing(i, edit_geojson[1][1]) => i \in out_data
    /\ StoredCase =>
          \A i \in 1..Len(gdf) : OnRing(i, StoredRing) => i \in out_data

(* C6 (amended): a row on the boundary of the selection polygon (an edge or *)
(* a vertex) is left out of the emitted subset, on both paths.              *)
C6_BoundaryExcluded ==
    /\ DrawnCase =>
          \A i \in 1..Len(gdf), f \in 1..Len(edit_geojson[1]) :
              OnRing(i, edit_geojson[1][f]) => i \notin out_data
    /\ StoredCase =>
          \A i \in 1..Len(gdf) : OnRing(i, StoredRing) => i \notin out_data

(* C6 witness: the stored polygon is re-applied, a row lies on one of its   *)
(* edges, another on a vertex, and rows inside it are emitted.              *)
C6_Witness ==
    /\ StoredCase
    /\ out_data # {}
    /\ \E i \in 1..Len(gdf) : OnRing(i, StoredRing) /\ RowPoint(i) \in SeqToSet(StoredRing)
    /\ \E i \in 1..Len(gdf) : OnRing(i, StoredRing) /\ RowPoint(i) \notin SeqToSet(StoredRing)

C8_NeitherAvailableIsFull ==
    (selection_mode = "polygon" /\ NoDrawing /\ DistinctVertices(arg_positions) < 3
        /\ err = "none")
        => /\ out_data = 1..Len(gdf)
           /\ DistinctVertices(polygon_positions) < 3

NoClickRadius == selection_mode = "radius" /\ ~Truthy(clickdate) /\ err = "none"

(* The emitted circle selects nothing less than the dataset: radius 0, or a *)
(* disk that holds every row.                                               *)
CircleUnset ==
    \/ out_radius = 0
    \/ \A i \in 1..Len(gdf) :
          Sq(1000) * Dist2(RowPoint(i), <<out_center[2], out_center[1]>>) < Sq(out_radius)

(* C9 (as claimed): in radius mode with no click point the subset is the    *)
(* full dataset and the emitted circle is a degenerate marker for "unset".  *)
C9_NoClickCircleUnset == NoClickRadius => (out_data = 1..Len(gdf) /\ CircleUnset)

(* C9 (amended): in radius mode with no click point the subset is the full  *)
(* dataset, and the emitted circle is the default map centre with the       *)
(* slider's radius, for every slider value.                                 *)
C9_NoClickDefaultCircle ==
    NoClickRadius =>
        /\ out_data = 1..Len(gdf)
        /\ out_center = center
        /\ out_radius = radius
        /\ polygon_positions = arg_positions

(* C9 witness: no click, radius mode, a slider value other than the initial *)
(* one, and a row outside the emitted circle.                               *)
C9_Witness ==
    /\ NoClickRadius
    /\ radius # slider_value
    /\ ~CircleUnset

Normalized == Truthy(agg_normalized)

Tie(c, n) == 2 * ((100 * c) % n) = n

(* C10 (as claimed): each percentage is 100*c/n rounded to the nearest      *)
(* integer, ties rounded half up.                                           *)
C10_RoundHalfUp ==
    Normalized =>
        \A k \in 1..Len(agg_counts) :
            LET c == agg_counts[k]
                n == Sum(agg_counts)
                p == agg_normalized[1][k]
            IN  2 * n * p <= 200 * c + n /\ 200 * c + n < 2 * n * (p + 1)

(* C10 (amended): each percentage is an integer nearest to 100*c/n, and a   *)
(* tie goes to the even neighbour (12.5 becomes 12, 37.5 becomes 38).       *)
C10_RoundHalfEven ==
    Normalized =>
        \A k \in 1..Len(agg_counts) :
            LET c == agg_counts[k]
                n == Sum(agg_counts)
                p == agg_normalized[1][k]
            IN  /\ 2 * n * p <= 200 * c + n
                /\ 200 * c - n <= 2 * n * p
                /\ Tie(c, n) => p % 2 = 0

(* C10 witness: a subset of 8 rows with a category of one row (12.5) and a  *)
(* category of three rows (37.5).                                           *)
C10_Witness ==
    /\ Normalized
    /\ Sum(agg_counts) = 8
    /\ \E k \in 1..Len(agg_counts) : agg_counts[k] = 1
    /\ \E k \in 1..Len(agg_counts) : agg_counts[k] = 3

(* C11: for a non-empty subset with k categories the emitted percentages   *)
(* add up to a value between 100 - (k - 1) and 100 + (k - 1).              *)
C11_PercentagesConserved ==
    Normalized =>
        LET k == Len(agg_counts)
            total == Sum(agg_normalized[1])
        IN  100 - (k - 1) <= total /\ total <= 100 + (k - 1)

(* C11 witness: three categories whose percentages do not add up to 100. *)
C11_Witness ==
    /\ Normalized
    /\ Len(agg_counts) = 3
    /\ Sum(agg_normalized[1]) # 100

(* Position (from 1) of the first row of the full dataset that holds v. *)
FirstSeen(col, v) == SetMin({i \in 1..Len(gdf) : gdf[i][col] = v})

SummaryTopics == {out_configs[k].topic : k \in 1..Len(out_configs)}

SummaryComplete ==
    /\ SummaryTopics = {gdf[i][selected_column] : i \in out_data}
    /\ Cardinality(SummaryTopics) = Len(out_configs)

(* C12 (as claimed): the category summary lists the categories in order of *)
(* first appearance of each value in the full dataset.                     *)
C12_FirstSeenOrder ==
    err = "none" =>
        \A j \in 1..Len(out_configs), k \in 1..Len(out_configs) :
            j < k => FirstSeen(selected_column, out_configs[j].topic)
                        < FirstSeen(selected_column, out_configs[k].topic)

(* C12 (amended): the category summary lists each value present in the     *)
(* subset once, in ascending order of the value, whatever the order of the *)
(* subset's rows.                                                          *)
C12_ValueOrder ==
    err = "none" =>
        /\ SummaryComplete
        /\ \A j \in 1..Len(out_configs), k \in 1..Len(out_configs) :
              j < k => out_configs[j].topic < out_configs[k].topic

(* C12 witness: a radius selection whose summary holds two values that the *)
(* dataset meets in the other order.                                       *)
C12_Witness ==
    /\ RadiusCase
    /\ out_data # 1..Len(gdf)
    /\ \E j \in 1..Len(out_configs), k \in 1..Len(out_configs) :
          /\ j < k
          /\ FirstSeen(selected_column, out_configs[j].topic)
                > FirstSeen(selected_column, out_configs[k].topic)

(* The selection as the page shows it: subset, circle, polygon, slider. *)
Selection ==
    <<out_data, out_center, out_radius, polygon_positions, out_disabled>>

SelectionInputs ==
    <<clickdate, radius, edit_geojson, selection_mode>>

(* C13: a column-changed event between two valid columns, all other inputs *)
(* being the same, leaves the subset, the circle center and radius, the    *)
(* polygon positions and the slider-disabled flag as they were.            *)
C13_ColumnChangeKeepsSelection ==
    [][(/\ err = "none"
        /\ err' = "none"
        /\ selected_column' # selected_column)
          => /\ SelectionInputs' = SelectionInputs
             /\ Selection' = Selection]_vars

(* C13 witness: the other column is shown over a radius selection that    *)
(* keeps some rows and drops others, summarised by that column.            *)
C13_Witness ==
    /\ err = "none"
    /\ selected_column # default_column
    /\ RadiusCase
    /\ out_data # {}
    /\ out_data # 1..Len(gdf)
    /\ SummaryTopics = {gdf[i][selected_column] : i \in out_data}

(* What the page shows: the selection, the category summary and the grid. *)
View == <<Selection, out_configs, out_grid>>

(* C14 (as claimed): an event that requests a column absent from the      *)
(* dataset schema raises nothing out of update_map and leaves the view as *)
(* it was.                                                                *)
C14_InvalidColumnRejectedQuietly ==
    [][(selected_column' # selected_column /\ ~ValidColumn')
          => (err' = "none" /\ View' = View)]_vars

(* C15 (as claimed): in every polygon-mode state the radius is inert: the *)
(* slider is disabled and the emitted circle radius is 0.                 *)
C15_RadiusInertInPolygonMode ==
    (selection_mode = "polygon" /\ err = "none")
        => (out_disabled /\ out_radius = 0)

(* C16: a call for a column of the schema raises nothing, and when its    *)
(* region matches no row the list of point configurations is empty and    *)
(* the grid chart has no cell.                                            *)
C16_EmptySubsetIsEmptySummary ==
    ValidColumn =>
        /\ err = "none"
        /\ out_data = {} => (out_configs = <<>> /\ out_grid = <<>>)

(* C16 witness: a disk of positive radius around a click, or a drawn      *)
(* polygon, that holds no row of the dataset.                             *)
C16_Witness ==
    /\ RadiusCase \/ DrawnCase
    /\ ValidColumn
    /\ out_data = {}
    /\ out_configs = <<>>
    /\ out_grid = <<>>

(* C17: no step of any call, overlapping with other calls or not, changes *)
(* the loaded dataset, the coordinate array of the spatial index or the   *)
(* colour registry.                                                       *)
C17_GlobalsNeverWritten ==
    [][/\ gdf' = gdf
       /\ points' = points
       /\ col_values_color' = col_values_color]_vars

(* C17 witness: two calls in flight at once, one that has summarised its  *)
(* selection and one that has coloured its copy for another column, while *)
(* the loaded dataset has no colour column.                               *)
C17_Witness ==
    \E i \in Calls, j \in Calls :
        /\ call_pc[i] = "selected"
        /\ call_pc[j] = "coloured"
        /\ call_frame[i][1].selected_column # call_frame[j][1].selected_column
        /\ call_frame[i][1].result[1].data # 1..Len(gdf)
        /\ call_frame[j][1].gdf_copy # gdf
        /\ \A k \in 1..Len(gdf) : "color" \notin DOMAIN gdf[k]

(* Rows contained in the polygon the page is given back, read as (lon, lat). *)
RowsInEmittedPolygon ==
    {i \in 1..Len(gdf) : Within(RowPoint(i), SwapAll(polygon_positions))}

(* C18 (as claimed): in polygon mode with a drawn polygon, whatever the   *)
(* number of drawn features, the emitted subset is exactly the set of     *)
(* rows contained in the emitted polygon.                                 *)
C18_SubsetIsEmittedPolygon ==
    DrawnCase => out_data = RowsInEmittedPolygon

(* Cells asked for by the first c configurations. *)
AskedUpTo(c) == Sum(SubSeq(agg_normalized[1], 1, c))

(* Positions (from 1) of the cells coloured by configuration c. *)
CellsOf(c) == {k \in 1..Len(agg_grid[1]) : agg_grid[1][k].colors = Str(c)}

(* C19: the grid chart holds at most 100 cells; the k-th cell placed (k   *)
(* from 0) is at row k div 10 and column k mod 10; the cells of each      *)
(* configuration are contiguous, in configuration order; cells past the   *)
(* 100th are dropped, the later configurations getting fewer cells or     *)
(* none.                                                                  *)
C19_GridPlacement ==
    agg_grid # None =>
        /\ Len(agg_grid[1]) <= 100
        /\ \A k \in 1..Len(agg_grid[1]) :
              /\ agg_grid[1][k].y = (k - 1) \div 10
              /\ agg_grid[1][k].x = (k - 1) % 10
        /\ \A c \in 1..Len(agg_counts) :
              CellsOf(c) = {k \in 1..100 : AskedUpTo(c - 1) < k /\ k <= AskedUpTo(c)}

(* C19 witness: rounded percentages that add up to more than 100, a full  *)
(* grid, and a last category with fewer cells than its percentage.        *)
C19_Witness ==
    /\ agg_grid # None
    /\ AskedUpTo(Len(agg_counts)) > 100
    /\ Len(agg_grid[1]) = 100
    /\ Cardinality(CellsOf(Len(agg_counts))) < agg_normalized[1][Len(agg_counts)]

====
